---- MODULE Spec2Model ----
(***************************************************************************)
(* crowgent-openapi (src/src/cli.ts, the command registered at lines       *)
(* 206-448 with runQA and collectFiles at 450-522).                        *)
(*                                                                         *)
(* Text is modelled as a sequence of one-character strings, so that the    *)
(* string operations of the code (startsWith, extname, the two fence       *)
(* regular expressions, trim, toLowerCase, template concatenation) are     *)
(* computed character by character.  A fixed prompt text that the code     *)
(* only ever copies is kept as a single element.                           *)
(***************************************************************************)
EXTENDS Integers, Sequences, FiniteSets, TLC

VARIABLES
    pc,          \* position of the action / of the function being applied
    opts,        \* parsed flags: yes, apiKey, output, baseUrl
    directory,   \* the positional [directory] argument
    envKey,      \* process.env.OPENAI_API_KEY
    fs,          \* kind of every path of the file system: none, dir, file
    tree,        \* the entries below a scanned directory
    apiKey, targetDir, stat, outputFile, baseUrl,
    files, codeContext, response, yaml,
    messages,    \* conversation history of runQA
    question,    \* the message of the current Q&A turn
    prompts,     \* prompts issued so far, in order
    answers,     \* what each resolved prompt returned
    requests,    \* completion requests issued so far, in order
    writes,      \* writeFileSync calls, in order, and whether each succeeded
    exitCode,    \* <<>> while running, then <<code>>
    outcome,     \* how the run ended
    budget       \* remaining environment events: fs changes, rejected entries, turns

vars == <<pc, opts, directory, envKey, fs, tree, apiKey, targetDir, stat,
          outputFile, baseUrl, files, codeContext, response, yaml, messages,
          question, prompts, answers, requests, writes, exitCode, outcome, budget>>

(***************************************************************************)
(* Bounds of the model.                                                    *)
(***************************************************************************)
MaxNodes == 3          \* entries of an enumerated directory tree
MaxFiles == 2          \* files of an enumerated file list
MaxTurns == 2          \* Q&A prompts answered in one session
MaxFsChanges == 1      \* changes other processes make to the file system
MaxRejected == 1       \* directory entries the validation rejects

(***************************************************************************)
(* Text.                                                                   *)
(***************************************************************************)
None == <<"<none>">>     \* undefined / null
Cancel == <<"<cancel>">> \* the cancel symbol of the prompt library
Confirmed == <<"true">>  \* what p.confirm returns
Declined == <<"false">>

Empty == <<>>
NL == "\n"
Tick == "<backquote>"   \* the backquote character
Fence == <<Tick, Tick, Tick>>

\* mutant: only undefined counts as missing, the empty string passes
Truthy_DefinedOnly(v) == v /= None

Truthy(v) == v /= None /\ v /= Empty

\* a || b
OrElse(a, b) == IF Truthy(a) THEN a ELSE b

startsWith(s, prefix) ==
    /\ Len(s) >= Len(prefix)
    /\ SubSeq(s, 1, Len(prefix)) = prefix

endsWith(s, suffix) ==
    /\ Len(s) >= Len(suffix)
    /\ SubSeq(s, Len(s) - Len(suffix) + 1, Len(s)) = suffix

Drop(s, n) == SubSeq(s, n + 1, Len(s))

Upper == [a |-> "A", d |-> "D", e |-> "E", l |-> "L", m |-> "M", n |-> "N",
          o |-> "O", y |-> "Y"]

LowerChar(c) ==
    IF \E k \in DOMAIN Upper : Upper[k] = c
    THEN CHOOSE k \in DOMAIN Upper : Upper[k] = c
    ELSE c

toLowerCase(s) == [i \in 1..Len(s) |-> LowerChar(s[i])]

WhiteSpace == {" ", NL, "\t", "\r"}

RECURSIVE trimStart(_)
trimStart(s) ==
    IF s /= Empty /\ Head(s) \in WhiteSpace THEN trimStart(Tail(s)) ELSE s

RECURSIVE trimEnd(_)
trimEnd(s) ==
    IF s /= Empty /\ s[Len(s)] \in WhiteSpace
    THEN trimEnd(SubSeq(s, 1, Len(s) - 1))
    ELSE s

trim(s) == trimEnd(trimStart(s))

\* parts.join(sep)
RECURSIVE JoinWith(_, _)
JoinWith(parts, sep) ==
    IF parts = <<>> THEN <<>>
    ELSE IF Len(parts) = 1 THEN parts[1]
    ELSE parts[1] \o sep \o JoinWith(Tail(parts), sep)

(***************************************************************************)
(* Paths (node:path, POSIX).                                               *)
(***************************************************************************)
Dot == <<".">>
Slash == <<"/">>
Cwd == <<"/", "w">>

RECURSIVE lastIndexOf(_, _)
lastIndexOf(s, c) ==
    IF s = Empty THEN 0
    ELSE IF s[Len(s)] = c THEN Len(s)
    ELSE lastIndexOf(SubSeq(s, 1, Len(s) - 1), c)

\* extname of a name without separators: the text from the last dot on,
\* nothing when there is no dot, when the only dot leads the name, or for ".."
extname(entry) ==
    LET startDot == lastIndexOf(entry, ".")
    IN  IF startDot = 0 \/ startDot = 1 \/ entry = <<".", ".">>
        THEN Empty
        ELSE SubSeq(entry, startDot, Len(entry))

join(dir, entry) == IF dir = Dot THEN entry ELSE dir \o Slash \o entry

resolve(path) == IF path = Dot THEN Cwd ELSE Cwd \o Slash \o path

\* mutant: the path is not made relative to the root
relative_Full(root, fullPath) == fullPath

\* relative(root, fullPath) for a fullPath below root
relative(root, fullPath) ==
    LET from == resolve(root)
        to == resolve(fullPath)
    IN  IF to = from THEN Empty ELSE Drop(to, Len(from) + 1)

(***************************************************************************)
(* The file collector, lines 203-204 and 503-522.                          *)
(***************************************************************************)
EXTENSIONS == {
    <<".", "t", "s">>, <<".", "j", "s">>, <<".", "t", "s", "x">>,
    <<".", "j", "s", "x">>, <<".", "p", "y">>, <<".", "r", "b">>,
    <<".", "g", "o">>, <<".", "j", "a", "v", "a">>, <<".", "k", "t">>,
    <<".", "r", "s">> }

IGNORE == {
    <<"n", "o", "d", "e", "_", "m", "o", "d", "u", "l", "e", "s">>,
    <<".", "g", "i", "t">>,
    <<"d", "i", "s", "t">>,
    <<"b", "u", "i", "l", "d">>,
    <<"_", "_", "p", "y", "c", "a", "c", "h", "e", "_", "_">>,
    <<".", "n", "e", "x", "t">>,
    <<"c", "o", "v", "e", "r", "a", "g", "e">> }

SizeCap == 100000

\* A tree is a sequence of entries; entry i lies in the directory parent
\* (0: the scanned root) and a directory lists its entries by ascending index.
readdirSync(t, node) == SelectSeq([i \in 1..Len(t) |-> i], LAMBDA i : t[i].parent = node)

Skipped(entry) == startsWith(entry, Dot) \/ entry \in IGNORE

\* mutant: the size cap is inclusive
Included_CapInclusive(entry, size) == extname(entry) \in EXTENSIONS /\ size <= SizeCap

Included(entry, size) == extname(entry) \in EXTENSIONS /\ size < SizeCap

RECURSIVE collectFiles(_, _, _, _)
RECURSIVE CollectEntries(_, _, _, _)
CollectEntries(t, entries, dir, root) ==
    IF entries = <<>> THEN <<>>
    ELSE
        LET i == Head(entries)
            entry == t[i].name
            fullPath == join(dir, entry)
            rest == CollectEntries(t, Tail(entries), dir, root)
        IN  IF Skipped(entry) THEN rest
            ELSE IF t[i].isDir THEN collectFiles(t, i, fullPath, root) \o rest
            ELSE IF Included(entry, t[i].size)
                 THEN <<[path |-> relative(root, fullPath), content |-> t[i].content]>> \o rest
            ELSE rest

collectFiles(t, node, dir, root) == CollectEntries(t, readdirSync(t, node), dir, root)

(***************************************************************************)
(* Directory trees.                                                        *)
(***************************************************************************)
N_users_py == <<"u", "s", "e", "r", "s", ".", "p", "y">>
N_ignored_py == <<"i", "g", "n", "o", "r", "e", "d", ".", "p", "y">>
N_huge_py == <<"h", "u", "g", "e", ".", "p", "y">>
N_app_ts == <<"a", "p", "p", ".", "t", "s">>
N_notes_md == <<"n", "o", "t", "e", "s", ".", "m", "d">>
N_env_py == <<".", "e", "n", "v", ".", "p", "y">>
N_api == <<"a", "p", "i">>
N_node_modules == <<"n", "o", "d", "e", "_", "m", "o", "d", "u", "l", "e", "s">>
N_dist == <<"d", "i", "s", "t">>
N_cache == <<".", "c", "a", "c", "h", "e">>
N_nope == <<"n", "o", "p", "e">>

File(name, size, content) ==
    [name |-> name, isDir |-> FALSE, size |-> size, content |-> content]
Dir(name) ==
    [name |-> name, isDir |-> TRUE, size |-> 4096, content |-> Empty]
At(entry, parent) ==
    [name |-> entry.name, isDir |-> entry.isDir, size |-> entry.size,
     content |-> entry.content, parent |-> parent]

Entries == {
    File(N_users_py, 40, <<"u">>),
    File(N_app_ts, 99999, <<"a">>),
    File(N_huge_py, 100000, <<"h">>),
    File(N_notes_md, 40, <<"n">>),
    File(N_env_py, 40, <<"e">>),
    Dir(N_api),
    Dir(N_dist),
    Dir(N_cache) }

\* every tree of n entries: an entry lies in the root or in an earlier
\* directory, and no directory holds two entries of one name
RECURSIVE TreesOf(_)
TreesOf(n) ==
    IF n = 0 THEN {<<>>}
    ELSE { Append(t, At(e, q)) :
             <<t, e, q>> \in { x \in TreesOf(n - 1) \X Entries \X (0..(n - 1)) :
                 /\ x[3] = 0 \/ x[1][x[3]].isDir
                 /\ \A j \in 1..Len(x[1]) :
                        ~(x[1][j].parent = x[3] /\ x[1][j].name = x[2].name) } }

\* the tree of the scenario: users.py (40 bytes), node_modules/ignored.py,
\* huge.py (150,000 bytes)
ExampleTree == <<
    At(File(N_users_py, 40, <<"u">>), 0),
    At(Dir(N_node_modules), 0),
    At(File(N_ignored_py, 40, <<"i">>), 2),
    At(File(N_huge_py, 150000, <<"h">>), 0) >>

NoSourceTree == << At(File(N_notes_md, 40, <<"n">>), 0) >>

\* a tree with a file one byte below the cap, one exactly at it, and a
\* source file below an ignored directory
CapTree == <<
    At(File(N_app_ts, 99999, <<"a">>), 0),
    At(File(N_huge_py, 100000, <<"h">>), 0),
    At(Dir(N_dist), 0),
    At(File(N_users_py, 40, <<"u">>), 3) >>

Trees ==
    UNION { TreesOf(n) : n \in 0..MaxNodes } \cup {ExampleTree, NoSourceTree, CapTree}

Roots == {Dot, N_api}

(***************************************************************************)
(* The context text and the normalisation of the response.                 *)
(***************************************************************************)
\* lines 373-375: "### " path "\n" fence "\n" content "\n" fence, joined by a blank line
\* mutant: the header naming the path is missing
Block_NoHeader(f) == Fence \o <<NL>> \o f.content \o <<NL>> \o Fence

Block(f) ==
    <<"#", "#", "#", " ">> \o f.path \o <<NL>> \o Fence \o <<NL>>
        \o f.content \o <<NL>> \o Fence

AssembleContext(fs_) ==
    JoinWith([i \in 1..Len(fs_) |-> Block(fs_[i])], <<NL, NL>>)

\* line 394, first replace: /^(three backquotes)ya?ml\n?/i
LeadingFenceLen(s) ==
    LET low == toLowerCase(s)
        tag == IF startsWith(low, Fence \o <<"y", "a", "m", "l">>) THEN 7
               ELSE IF startsWith(low, Fence \o <<"y", "m", "l">>) THEN 6
               ELSE 0
    IN  IF tag = 0 THEN 0
        ELSE IF Len(s) > tag /\ s[tag + 1] = NL THEN tag + 1
        ELSE tag

\* mutant: the opening fence is left in place
StripLeadingFence_Keep(s) == s

StripLeadingFence(s) == Drop(s, LeadingFenceLen(s))

\* line 394, second replace: /\n?(three backquotes)$/i, $ being the end of the text
StripTrailingFence(s) ==
    IF ~endsWith(s, Fence) THEN s
    ELSE IF endsWith(s, <<NL>> \o Fence) THEN SubSeq(s, 1, Len(s) - 4)
    ELSE SubSeq(s, 1, Len(s) - 3)

StripFence(s) == trim(StripTrailingFence(StripLeadingFence(s)))

(***************************************************************************)
(* Inputs of a run.                                                        *)
(***************************************************************************)
Key == <<"s", "k">>
OutYaml == <<"o", "u", "t", ".", "y", "a", "m", "l">>
DefaultOutput == <<"o", "p", "e", "n", "a", "p", "i", ".", "y", "a", "m", "l">>
DefaultBaseUrl == <<"h", "t", "t", "p", ":", "/", "/", "l", "o", "c", "a", "l",
                    "h", "o", "s", "t", ":", "3", "0", "0", "0">>
ApiUrl == <<"h", "t", "t", "p", "s", ":", "/", "/", "a", "p", "i">>

\* --api-key and OPENAI_API_KEY: neither, an empty variable, either one
Credentials == { <<None, None>>, <<None, Empty>>, <<Key, None>>, <<None, Key>> }

Paths == {Dot, N_api, N_users_py, N_nope}

\* the file system a run starts in: ".", "api" are directories, "users.py"
\* is a file, "nope" does not exist
InitialFs ==
    [p \in Paths |-> IF p \in {Dot, N_api} THEN "dir"
                     ELSE IF p = N_users_py THEN "file" ELSE "none"]

InitialFsKind(path) == IF path = N_users_py THEN "file" ELSE "dir"

existsSync(path) == path \in Paths /\ fs[path] /= "none"

FileContent == <<"d", "e", "f">>

OpenApiBody == <<"o", "p", "e", "n", "a", "p", "i", ":", " ", "3", ".", "0", ".", "3">>

\* completion texts: the yaml-fenced document of the scenario, the same in a
\* fence without a tag, and no content (null)
YamlFenced == Fence \o <<"y", "a", "m", "l", NL>> \o OpenApiBody \o <<NL>> \o Fence
BareFenced == Fence \o <<NL>> \o OpenApiBody \o <<NL>> \o Fence
Responses == { YamlFenced, BareFenced, None }

SpecSystemPrompt == <<"You are an expert at generating OpenAPI 3.0 specifications. ...">>
SpecUserPrefix == <<"Generate an OpenAPI spec for this backend code. Base URL: ">>
QASystemPrompt == <<"You are a helpful assistant for Crow (https://usecrow.ai), ...">>
Sorry == <<"Sorry, I couldn't generate a response.">>

Message(role, content) == [role |-> role, content |-> content]

\* a request of openai.chat.completions.create, outstanding until it
\* returns ("ok") or throws ("failed")
Request(kind, msgs) == [kind |-> kind, messages |-> msgs, result |-> "pending"]

Settle(reqs, result) == [reqs EXCEPT ![Len(reqs)].result = result]

Hi == <<"h", "i">>
Questions == {
    Cancel, Empty,
    <<"d", "o", "n", "e">>, <<"D", "O", "N", "E">>, <<"D", "o", "n", "e">>,
    Hi }

Answer == <<"o", "k">>

(***************************************************************************)
(* The action of the command, lines 215-448.                               *)
(***************************************************************************)
NoAnswers == [consent |-> None, dir |-> None, output |-> None, url |-> None,
              offer |-> None]

NotStarted ==
    /\ apiKey = None /\ stat = None
    /\ outputFile = None /\ baseUrl = None
    /\ messages = <<>> /\ question = None
    /\ prompts = <<>> /\ answers = NoAnswers
    /\ requests = <<>> /\ writes = <<>>
    /\ exitCode = <<>> /\ outcome = "running"
    /\ budget = [fs |-> MaxFsChanges, rejected |-> MaxRejected, turns |-> MaxTurns]

Init ==
    /\ pc = "start"
    /\ opts \in [yes : BOOLEAN, apiKey : {None, Key}, output : {None, OutYaml},
                 baseUrl : {None, ApiUrl}]
    /\ directory \in {None, Empty, N_api, N_users_py, N_nope}
    /\ envKey \in {None, Empty, Key}
    /\ <<opts.apiKey, envKey>> \in Credentials
    /\ fs = InitialFs
    /\ tree \in {ExampleTree, NoSourceTree}
    /\ targetDir = None
    /\ files = <<>> /\ codeContext = None /\ response = None /\ yaml = None
    /\ NotStarted

\* process.exit(code), or the action returning (code 0)
Exit(code, why) ==
    /\ pc' = "exited"
    /\ exitCode' = <<code>>
    /\ outcome' = why

\* lines 228-240
CheckApiKey ==
    /\ pc = "start"
    /\ apiKey' = OrElse(opts.apiKey, envKey)
    /\ IF ~Truthy(apiKey')
       THEN Exit(1, "missing_key")
       ELSE pc' = "consent" /\ UNCHANGED <<exitCode, outcome>>
    /\ UNCHANGED <<opts, directory, envKey, fs, tree, targetDir, stat, outputFile,
                   baseUrl, files, codeContext, response, yaml, messages, question,
                   prompts, answers, requests, writes, budget>>

\* lines 243-247: the consent prompt, unless --yes
Consent ==
    /\ pc = "consent"
    /\ IF opts.yes
       THEN pc' = "dir" /\ UNCHANGED prompts
       ELSE pc' = "await_consent" /\ prompts' = Append(prompts, "consent")
    /\ UNCHANGED <<opts, directory, envKey, fs, tree, apiKey, targetDir, stat,
                   outputFile, baseUrl, files, codeContext, response, yaml, messages,
                   question, answers, requests, writes, exitCode, outcome, budget>>

\* mutant: only a cancelled confirmation stops the run
Refused_CancelOnly(consent) == consent = Cancel

\* line 249: p.isCancel(consent) || !consent
Refused(consent) == consent = Cancel \/ consent /= Confirmed

\* lines 249-252
ConsentAnswered(consent) ==
    /\ pc = "await_consent"
    /\ answers' = [answers EXCEPT !.consent = consent]
    /\ IF Refused(consent)
       THEN Exit(0, "cancelled")
       ELSE pc' = "dir" /\ UNCHANGED <<exitCode, outcome>>
    /\ UNCHANGED <<opts, directory, envKey, fs, tree, apiKey, targetDir, stat,
                   outputFile, baseUrl, files, codeContext, response, yaml, messages,
                   question, prompts, requests, writes, budget>>

\* lines 256-274: a supplied path that does not exist is cleared when prompting
\* is allowed; the directory prompt is issued when no path is left
GetDirectory ==
    /\ pc = "dir"
    /\ LET given == IF Truthy(directory) /\ ~existsSync(directory) /\ ~opts.yes
                    THEN None ELSE directory
       IN  /\ targetDir' = given
           /\ IF ~Truthy(given) /\ ~opts.yes
              THEN pc' = "await_dir" /\ prompts' = Append(prompts, "directory")
              ELSE pc' = "validate" /\ UNCHANGED prompts
    /\ UNCHANGED <<opts, directory, envKey, fs, tree, apiKey, stat, outputFile,
                   baseUrl, files, codeContext, response, yaml, messages, question,
                   answers, requests, writes, exitCode, outcome, budget>>

\* mutant: the prompt accepts a submission without validating it
DirectoryAnswered_NoValidate(dirInput) ==
    /\ pc = "await_dir"
    /\ IF dirInput = Cancel
       THEN /\ Exit(0, "cancelled")
            /\ answers' = [answers EXCEPT !.dir = Cancel]
            /\ UNCHANGED <<targetDir, budget>>
       ELSE /\ pc' = "validate"
            /\ targetDir' = dirInput
            /\ answers' = [answers EXCEPT !.dir = dirInput]
            /\ UNCHANGED <<exitCode, outcome, budget>>
    /\ UNCHANGED <<opts, directory, envKey, fs, tree, apiKey, stat, outputFile,
                   baseUrl, files, codeContext, response, yaml, messages, question,
                   prompts, requests, writes>>

\* lines 271-281: a submission is validated against the file system and asked
\* again when the path is missing
DirectoryAnswered(dirInput) ==
    /\ pc = "await_dir"
    /\ IF dirInput = Cancel
       THEN /\ Exit(0, "cancelled")
            /\ answers' = [answers EXCEPT !.dir = Cancel]
            /\ UNCHANGED <<targetDir, budget>>
       ELSE IF ~existsSync(dirInput)
       THEN /\ budget.rejected > 0
            /\ budget' = [budget EXCEPT !.rejected = @ - 1]
            /\ UNCHANGED <<pc, exitCode, outcome, targetDir, answers>>
       ELSE /\ pc' = "validate"
            /\ targetDir' = dirInput
            /\ answers' = [answers EXCEPT !.dir = dirInput]
            /\ UNCHANGED <<exitCode, outcome, budget>>
    /\ UNCHANGED <<opts, directory, envKey, fs, tree, apiKey, stat, outputFile,
                   baseUrl, files, codeContext, response, yaml, messages, question,
                   prompts, requests, writes>>

\* mutant: the final validation is left out
ValidateTarget_NoCheck ==
    /\ pc = "validate"
    /\ targetDir' = OrElse(targetDir, Dot)
    /\ pc' = "stat"
    /\ UNCHANGED <<opts, directory, envKey, fs, tree, apiKey, stat, outputFile,
                   baseUrl, files, codeContext, response, yaml, messages, question,
                   prompts, answers, requests, writes, exitCode, outcome, budget>>

\* lines 282-290
ValidateTarget ==
    /\ pc = "validate"
    /\ targetDir' = OrElse(targetDir, Dot)
    /\ IF ~existsSync(targetDir')
       THEN Exit(1, "target_missing")
       ELSE pc' = "stat" /\ UNCHANGED <<exitCode, outcome>>
    /\ UNCHANGED <<opts, directory, envKey, fs, tree, apiKey, stat, outputFile,
                   baseUrl, files, codeContext, response, yaml, messages, question,
                   prompts, answers, requests, writes, budget>>

\* lines 293-299: statSync throws when the path has gone since the check, and
\* nothing in the action catches it
StatTarget ==
    /\ pc = "stat"
    /\ IF ~existsSync(targetDir)
       THEN Exit(1, "uncaught") /\ UNCHANGED stat
       ELSE /\ pc' = "output"
            /\ stat' = [isDirectory |-> fs[targetDir] = "dir"]
            /\ UNCHANGED <<exitCode, outcome>>
    /\ UNCHANGED <<opts, directory, envKey, fs, tree, apiKey, targetDir, outputFile,
                   baseUrl, files, codeContext, response, yaml, messages, question,
                   prompts, answers, requests, writes, budget>>

\* p.text with a defaultValue: an empty submission yields the default
TextOrDefault(input, defaultValue) == IF input = Empty THEN defaultValue ELSE input

\* mutant: the output path is asked for although --output supplies it
GetOutput_AlwaysPrompt ==
    /\ pc = "output"
    /\ IF ~opts.yes
       THEN /\ pc' = "await_output"
            /\ prompts' = Append(prompts, "output")
            /\ outputFile' = opts.output
       ELSE /\ pc' = "base_url"
            /\ outputFile' = OrElse(opts.output, DefaultOutput)
            /\ UNCHANGED prompts
    /\ UNCHANGED <<opts, directory, envKey, fs, tree, apiKey, targetDir, stat,
                   baseUrl, files, codeContext, response, yaml, messages, question,
                   answers, requests, writes, exitCode, outcome, budget>>

\* lines 302-308 and 316
GetOutput ==
    /\ pc = "output"
    /\ IF ~Truthy(opts.output) /\ ~opts.yes
       THEN /\ pc' = "await_output"
            /\ prompts' = Append(prompts, "output")
            /\ outputFile' = opts.output
       ELSE /\ pc' = "base_url"
            /\ outputFile' = OrElse(opts.output, DefaultOutput)
            /\ UNCHANGED prompts
    /\ UNCHANGED <<opts, directory, envKey, fs, tree, apiKey, targetDir, stat,
                   baseUrl, files, codeContext, response, yaml, messages, question,
                   answers, requests, writes, exitCode, outcome, budget>>

\* lines 310-317
OutputAnswered(input) ==
    /\ pc = "await_output"
    /\ IF input = Cancel
       THEN /\ Exit(0, "cancelled")
            /\ answers' = [answers EXCEPT !.output = Cancel]
            /\ UNCHANGED outputFile
       ELSE LET outputInput == TextOrDefault(input, DefaultOutput)
            IN  /\ pc' = "base_url"
                /\ outputFile' = OrElse(outputInput, DefaultOutput)
                /\ answers' = [answers EXCEPT !.output = outputInput]
                /\ UNCHANGED <<exitCode, outcome>>
    /\ UNCHANGED <<opts, directory, envKey, fs, tree, apiKey, targetDir, stat,
                   baseUrl, files, codeContext, response, yaml, messages, question,
                   prompts, requests, writes, budget>>

\* mutant: no default is applied when the prompt is skipped
GetBaseUrl_NoDefault ==
    /\ pc = "base_url"
    /\ baseUrl' = opts.baseUrl
    /\ IF ~Truthy(opts.baseUrl) /\ ~opts.yes
       THEN pc' = "await_url" /\ prompts' = Append(prompts, "baseUrl")
       ELSE pc' = "scan" /\ UNCHANGED prompts
    /\ UNCHANGED <<opts, directory, envKey, fs, tree, apiKey, targetDir, stat,
                   outputFile, files, codeContext, response, yaml, messages, question,
                   answers, requests, writes, exitCode, outcome, budget>>

\* lines 320-328 and 336
GetBaseUrl ==
    /\ pc = "base_url"
    /\ IF ~Truthy(opts.baseUrl) /\ ~opts.yes
       THEN /\ pc' = "await_url"
            /\ prompts' = Append(prompts, "baseUrl")
            /\ baseUrl' = opts.baseUrl
       ELSE /\ pc' = "scan"
            /\ baseUrl' = OrElse(opts.baseUrl, DefaultBaseUrl)
            /\ UNCHANGED prompts
    /\ UNCHANGED <<opts, directory, envKey, fs, tree, apiKey, targetDir, stat,
                   outputFile, files, codeContext, response, yaml, messages, question,
                   answers, requests, writes, exitCode, outcome, budget>>

\* lines 330-336
BaseUrlAnswered(input) ==
    /\ pc = "await_url"
    /\ IF input = Cancel
       THEN /\ Exit(0, "cancelled")
            /\ answers' = [answers EXCEPT !.url = Cancel]
            /\ UNCHANGED baseUrl
       ELSE LET urlInput == TextOrDefault(input, DefaultBaseUrl)
            IN  /\ pc' = "scan"
                /\ baseUrl' = OrElse(urlInput, DefaultBaseUrl)
                /\ answers' = [answers EXCEPT !.url = urlInput]
                /\ UNCHANGED <<exitCode, outcome>>
    /\ UNCHANGED <<opts, directory, envKey, fs, tree, apiKey, targetDir, stat,
                   outputFile, files, codeContext, response, yaml, messages, question,
                   prompts, requests, writes, budget>>

\* the files a run can be pointed at: users.py of the initial file system,
\* and files that a directory scan would leave out for their extension,
\* their size or their name
N_dot_users_py == <<".", "/">> \o N_users_py
N_env == <<".", "e", "n", "v">>

FileTable ==
    (N_users_py     :> [size |-> 40,     content |-> FileContent]) @@
    (N_dot_users_py :> [size |-> 40,     content |-> FileContent]) @@
    (N_notes_md     :> [size |-> 40,     content |-> <<"#", " ", "n">>]) @@
    (N_huge_py      :> [size |-> 100000, content |-> <<"h", "u", "g", "e">>]) @@
    (N_app_ts       :> [size |-> 250000, content |-> <<"b", "i", "g">>]) @@
    (N_env          :> [size |-> 40,     content |-> <<"K", "=", "1">>]) @@
    (N_env_py       :> [size |-> 40,     content |-> Empty]) @@
    (N_node_modules :> [size |-> 40,     content |-> <<"x">>])

\* line 344: readFileSync(targetDir, 'utf-8')
readFileSync(path) == FileTable[path].content

\* mutant: the one file is filtered as the files of a directory are
ScanResult_Filtered ==
    IF stat.isDirectory
    THEN collectFiles(tree, 0, targetDir, targetDir)
    ELSE IF /\ ~Skipped(targetDir)
            /\ Included(targetDir, FileTable[targetDir].size)
         THEN << [path |-> targetDir, content |-> readFileSync(targetDir)] >>
         ELSE <<>>

\* lines 340-345: the scan of a directory, or the one file; readdirSync and
\* readFileSync throw when the target is no longer what statSync saw
ScanResult ==
    IF stat.isDirectory
    THEN collectFiles(tree, 0, targetDir, targetDir)
    ELSE << [path |-> targetDir, content |-> readFileSync(targetDir)] >>

\* mutant: an empty scan result is passed on to the request
Scan_NoEmptyCheck ==
    /\ pc = "scan"
    /\ IF fs[targetDir] /= (IF stat.isDirectory THEN "dir" ELSE "file")
       THEN Exit(1, "uncaught") /\ UNCHANGED files
       ELSE /\ files' = ScanResult
            /\ pc' = "generate" /\ UNCHANGED <<exitCode, outcome>>
    /\ UNCHANGED <<opts, directory, envKey, fs, tree, apiKey, targetDir, stat,
                   outputFile, baseUrl, codeContext, response, yaml, messages,
                   question, prompts, answers, requests, writes, budget>>

\* lines 339-355
Scan ==
    /\ pc = "scan"
    /\ IF fs[targetDir] /= (IF stat.isDirectory THEN "dir" ELSE "file")
       THEN Exit(1, "uncaught") /\ UNCHANGED files
       ELSE /\ files' = ScanResult
            /\ IF Len(files') = 0
               THEN Exit(1, "no_files")
               ELSE pc' = "generate" /\ UNCHANGED <<exitCode, outcome>>
    /\ UNCHANGED <<opts, directory, envKey, fs, tree, apiKey, targetDir, stat,
                   outputFile, baseUrl, codeContext, response, yaml, messages,
                   question, prompts, answers, requests, writes, budget>>

\* lines 379-388
SpecMessages ==
    << Message("system", SpecSystemPrompt),
       Message("user", SpecUserPrefix \o baseUrl \o <<NL, NL>> \o codeContext') >>

\* lines 370-391: the context is assembled and the one request is sent
Generate ==
    /\ pc = "generate"
    /\ codeContext' = AssembleContext(files)
    /\ requests' = Append(requests, Request("spec", SpecMessages))
    /\ pc' = "await_completion"
    /\ UNCHANGED <<opts, directory, envKey, fs, tree, apiKey, targetDir, stat,
                   outputFile, baseUrl, files, response, yaml, messages, question,
                   prompts, answers, writes, exitCode, outcome, budget>>

\* lines 432-447: the request, or the write, threw
GenerationFailed ==
    /\ Exit(1, "generation_failed")

\* lines 393-430: the response is normalised and written; then the Q&A offer,
\* unless --yes, else the action ends
CompletionReturned(content, writeOk) ==
    /\ pc = "await_completion"
    /\ response' = content
    /\ yaml' = StripFence(OrElse(content, Empty))
    /\ requests' = Settle(requests, "ok")
    /\ writes' = Append(writes, [path |-> outputFile, content |-> yaml', ok |-> writeOk])
    /\ IF ~writeOk
       THEN GenerationFailed /\ UNCHANGED prompts
       ELSE /\ IF ~opts.yes
               THEN /\ pc' = "await_offer"
                    /\ prompts' = Append(prompts, "offer")
                    /\ UNCHANGED <<exitCode, outcome>>
               ELSE Exit(0, "done") /\ UNCHANGED prompts
    /\ UNCHANGED <<opts, directory, envKey, fs, tree, apiKey, targetDir, stat,
                   outputFile, baseUrl, files, codeContext, messages, question,
                   answers, budget>>

\* mutant: a failed request is sent once more
CompletionFailed_Retry ==
    /\ pc = "await_completion"
    /\ IF Len(requests) < 2
       THEN /\ requests' = Append(Settle(requests, "failed"),
                                  Request("spec", requests[1].messages))
            /\ UNCHANGED <<pc, exitCode, outcome>>
       ELSE /\ requests' = Settle(requests, "failed")
            /\ GenerationFailed
    /\ UNCHANGED <<opts, directory, envKey, fs, tree, apiKey, targetDir, stat,
                   outputFile, baseUrl, files, codeContext, response, yaml, messages,
                   question, prompts, answers, writes, budget>>

\* lines 377 and 432-447: the request threw
CompletionFailed ==
    /\ pc = "await_completion"
    /\ requests' = Settle(requests, "failed")
    /\ GenerationFailed
    /\ UNCHANGED <<opts, directory, envKey, fs, tree, apiKey, targetDir, stat,
                   outputFile, baseUrl, files, codeContext, response, yaml, messages,
                   question, prompts, answers, writes, budget>>

\* lines 422-430 and 462-470: a positive answer starts runQA, whose first
\* iteration prompts; any other answer ends the action
OfferAnswered(wantHelp) ==
    /\ pc = "await_offer"
    /\ answers' = [answers EXCEPT !.offer = wantHelp]
    /\ IF wantHelp = Confirmed /\ wantHelp /= Cancel
       THEN /\ messages' = << Message("system", QASystemPrompt) >>
            /\ pc' = "await_question"
            /\ prompts' = Append(prompts, "question")
            /\ UNCHANGED <<exitCode, outcome>>
       ELSE Exit(0, "done") /\ UNCHANGED <<messages, prompts>>
    /\ UNCHANGED <<opts, directory, envKey, fs, tree, apiKey, targetDir, stat,
                   outputFile, baseUrl, files, codeContext, response, yaml, question,
                   requests, writes, budget>>

\* mutant: "done" is compared without lower-casing
EndsLoop_CaseSensitive(q) == q = Cancel \/ ~Truthy(q) \/ q = <<"d", "o", "n", "e">>

\* line 472
EndsLoop(q) == q = Cancel \/ ~Truthy(q) \/ toLowerCase(q) = <<"d", "o", "n", "e">>

\* mutant: the request of a turn carries the system entry and the question only
QuestionAnswered_LastOnly(q) ==
    /\ pc = "await_question"
    /\ question' = q
    /\ IF EndsLoop(q)
       THEN Exit(0, "done") /\ UNCHANGED <<messages, requests, budget>>
       ELSE /\ budget.turns > 0
            /\ budget' = [budget EXCEPT !.turns = @ - 1]
            /\ messages' = Append(messages, Message("user", q))
            /\ requests' = Append(requests,
                                  Request("qa", << messages[1], Message("user", q) >>))
            /\ pc' = "await_answer"
            /\ UNCHANGED <<exitCode, outcome>>
    /\ UNCHANGED <<opts, directory, envKey, fs, tree, apiKey, targetDir, stat,
                   outputFile, baseUrl, files, codeContext, response, yaml, prompts,
                   answers, writes>>

\* lines 472-487: the loop ends (runQA returns and the action ends), or the
\* message is pushed and the request of the turn is sent with the history
QuestionAnswered(q) ==
    /\ pc = "await_question"
    /\ question' = q
    /\ IF EndsLoop(q)
       THEN Exit(0, "done") /\ UNCHANGED <<messages, requests, budget>>
       ELSE /\ budget.turns > 0
            /\ budget' = [budget EXCEPT !.turns = @ - 1]
            /\ messages' = Append(messages, Message("user", q))
            /\ requests' = Append(requests, Request("qa", messages'))
            /\ pc' = "await_answer"
            /\ UNCHANGED <<exitCode, outcome>>
    /\ UNCHANGED <<opts, directory, envKey, fs, tree, apiKey, targetDir, stat,
                   outputFile, baseUrl, files, codeContext, response, yaml, prompts,
                   answers, writes>>

\* mutant: the answer is shown but not kept in the history
AnswerReturned_NotKept(content) ==
    /\ pc = "await_answer"
    /\ requests' = Settle(requests, "ok")
    /\ pc' = "await_question"
    /\ prompts' = Append(prompts, "question")
    /\ UNCHANGED <<opts, directory, envKey, fs, tree, apiKey, targetDir, stat,
                   outputFile, baseUrl, files, codeContext, response, yaml, messages,
                   question, answers, writes, exitCode, outcome, budget>>

\* lines 489-495, then the next iteration's prompt (467)
AnswerReturned(content) ==
    /\ pc = "await_answer"
    /\ requests' = Settle(requests, "ok")
    /\ messages' = Append(messages, Message("assistant", OrElse(content, Sorry)))
    /\ pc' = "await_question"
    /\ prompts' = Append(prompts, "question")
    /\ UNCHANGED <<opts, directory, envKey, fs, tree, apiKey, targetDir, stat,
                   outputFile, baseUrl, files, codeContext, response, yaml, question,
                   answers, writes, exitCode, outcome, budget>>

\* mutant: the message of a failed turn is taken off the history
AnswerFailed_DropsTurn ==
    /\ pc = "await_answer"
    /\ requests' = Settle(requests, "failed")
    /\ messages' = SubSeq(messages, 1, Len(messages) - 1)
    /\ pc' = "await_question"
    /\ prompts' = Append(prompts, "question")
    /\ UNCHANGED <<opts, directory, envKey, fs, tree, apiKey, targetDir, stat,
                   outputFile, baseUrl, files, codeContext, response, yaml,
                   question, answers, writes, exitCode, outcome, budget>>

\* mutant: a failed Q&A request reaches the catch of the action
AnswerFailed_Fatal ==
    /\ pc = "await_answer"
    /\ requests' = Settle(requests, "failed")
    /\ GenerationFailed
    /\ UNCHANGED <<opts, directory, envKey, fs, tree, apiKey, targetDir, stat,
                   outputFile, baseUrl, files, codeContext, response, yaml, messages,
                   question, prompts, answers, writes, budget>>

\* lines 496-499, then the next iteration's prompt (467)
AnswerFailed ==
    /\ pc = "await_answer"
    /\ requests' = Settle(requests, "failed")
    /\ pc' = "await_question"
    /\ prompts' = Append(prompts, "question")
    /\ UNCHANGED <<opts, directory, envKey, fs, tree, apiKey, targetDir, stat,
                   outputFile, baseUrl, files, codeContext, response, yaml, messages,
                   question, answers, writes, exitCode, outcome, budget>>

\* Another process creates or removes a path.  Between two awaits the action
\* runs to completion, so such a change is taken before the action starts or
\* while it is suspended in a prompt that precedes the scan.
ChangePoints == {"start", "await_consent", "await_dir", "await_output", "await_url"}

FsChange(path) ==
    /\ pc \in ChangePoints
    /\ budget.fs > 0
    /\ budget' = [budget EXCEPT !.fs = @ - 1]
    /\ fs' = [fs EXCEPT ![path] = IF @ = "none" THEN InitialFsKind(path) ELSE "none"]
    /\ UNCHANGED <<pc, opts, directory, envKey, tree, apiKey, targetDir, stat,
                   outputFile, baseUrl, files, codeContext, response, yaml, messages,
                   question, prompts, answers, requests, writes, exitCode, outcome>>

Next ==
    \/ CheckApiKey
    \/ Consent
    \/ \E consent \in {Confirmed, Declined, Cancel} : ConsentAnswered(consent)
    \/ GetDirectory
    \/ \E dirInput \in {Cancel, Empty, Dot, N_nope} : DirectoryAnswered(dirInput)
    \/ ValidateTarget
    \/ StatTarget
    \/ GetOutput
    \/ \E input \in {Cancel, Empty, OutYaml} : OutputAnswered(input)
    \/ GetBaseUrl
    \/ \E input \in {Cancel, Empty, ApiUrl} : BaseUrlAnswered(input)
    \/ Scan
    \/ Generate
    \/ \E content \in Responses, writeOk \in BOOLEAN : CompletionReturned(content, writeOk)
    \/ CompletionFailed
    \/ \E wantHelp \in {Confirmed, Declined, Cancel} : OfferAnswered(wantHelp)
    \/ \E q \in Questions : QuestionAnswered(q)
    \/ \E content \in {Answer} : AnswerReturned(content)
    \/ AnswerFailed
    \/ \E path \in Paths : FsChange(path)

Spec == Init /\ [][Next]_vars

(***************************************************************************)
(* The pure functions applied to enumerated inputs.                        *)
(***************************************************************************)
NoRun ==
    /\ opts = [yes |-> TRUE, apiKey |-> None, output |-> None, baseUrl |-> None]
    /\ directory = None /\ envKey = None /\ fs = InitialFs
    /\ NotStarted

\* collectFiles(dir) on every tree of at most MaxNodes entries
InitCollect ==
    /\ pc = "collect"
    /\ tree \in Trees
    /\ targetDir \in Roots
    /\ files = <<>> /\ codeContext = None /\ response = None /\ yaml = None
    /\ NoRun

Collect ==
    /\ pc = "collect"
    /\ files' = collectFiles(tree, 0, targetDir, targetDir)
    /\ pc' = "collected"
    /\ UNCHANGED <<opts, directory, envKey, fs, tree, apiKey, targetDir, stat,
                   outputFile, baseUrl, codeContext, response, yaml, messages,
                   question, prompts, answers, requests, writes, exitCode, outcome,
                   budget>>

SpecCollect == InitCollect /\ [][Collect]_vars

\* lines 339-355 on a target that is a file: the state the action is in when
\* it reaches the scan, for every file of FileTable
InitScan ==
    /\ pc = "scan"
    /\ opts \in [yes : BOOLEAN, apiKey : {Key}, output : {None, OutYaml},
                 baseUrl : {None, ApiUrl}]
    /\ directory \in DOMAIN FileTable
    /\ envKey = None
    /\ apiKey = Key
    /\ fs = [p \in DOMAIN FileTable |-> "file"]
    /\ tree \in {ExampleTree, NoSourceTree, CapTree}
    /\ targetDir = directory
    /\ stat = [isDirectory |-> FALSE]
    /\ outputFile = OrElse(opts.output, DefaultOutput)
    /\ baseUrl = OrElse(opts.baseUrl, DefaultBaseUrl)
    /\ files = <<>> /\ codeContext = None /\ response = None /\ yaml = None
    /\ messages = <<>> /\ question = None
    /\ prompts = <<>> /\ answers = NoAnswers
    /\ requests = <<>> /\ writes = <<>>
    /\ exitCode = <<>> /\ outcome = "running"
    /\ budget = [fs |-> 0, rejected |-> MaxRejected, turns |-> MaxTurns]

SpecScan == InitScan /\ [][Scan]_vars

\* line 394 on responses built from an opening, a body and a closing
Tags == { Empty, <<"y", "a", "m", "l">>, <<"y", "m", "l">>, <<"Y", "A", "M", "L">>,
          <<"Y", "m", "l">>, <<"j", "s", "o", "n">> }
Openings == { Empty } \cup { Fence \o tag \o nl : tag \in Tags, nl \in {Empty, <<NL>>} }
Bodies == { Empty, <<"a", ":", " ", "1">>, <<"a", NL>> \o Fence \o <<NL, "b">> }
Closings == { Empty, Fence, <<NL>> \o Fence, <<NL>> \o Fence \o <<NL>>, <<" ">> \o Fence }
FenceInputs == { o \o b \o c : o \in Openings, b \in Bodies, c \in Closings } \cup Responses

InitFence ==
    /\ pc = "normalise"
    /\ response \in FenceInputs
    /\ yaml = None
    /\ tree = <<>> /\ targetDir = None /\ files = <<>> /\ codeContext = None
    /\ NoRun

Normalise ==
    /\ pc = "normalise"
    /\ yaml' = StripFence(OrElse(response, Empty))
    /\ pc' = "normalised"
    /\ UNCHANGED <<opts, directory, envKey, fs, tree, apiKey, targetDir, stat,
                   outputFile, baseUrl, files, codeContext, response, messages,
                   question, prompts, answers, requests, writes, exitCode, outcome,
                   budget>>

SpecFence == InitFence /\ [][Normalise]_vars

\* lines 373-375 on lists of at most MaxFiles files of pairwise distinct paths
\* (a directory holds one entry of a name); a POSIX file name may hold any
\* character but "/" and NUL, a line break included
N_a_py == <<"a", ".", "p", "y">>
N_b_py == <<"b", ".", "p", "y">>
OddName ==
    N_a_py \o <<NL>> \o Fence \o <<NL, "c", NL>> \o Fence \o <<NL, NL, "#", "#", "#", " ">> \o N_a_py
PoolPaths == { N_a_py, N_b_py, <<"d", "/">> \o N_b_py, OddName }
PoolContents == { <<"c">>, Empty, <<"c", NL>> \o Fence }
FilePool == [path : PoolPaths, content : PoolContents]

RECURSIVE ListsOf(_)
ListsOf(n) ==
    IF n = 0 THEN {<<>>}
    ELSE { Append(l, f) : <<l, f>> \in { x \in ListsOf(n - 1) \X FilePool :
                              \A k \in 1..Len(x[1]) : x[1][k].path /= x[2].path } }

FileLists == UNION { ListsOf(n) : n \in 0..MaxFiles }

InitContext ==
    /\ pc = "assemble"
    /\ files \in FileLists
    /\ codeContext = None
    /\ tree = <<>> /\ targetDir = None /\ response = None /\ yaml = None
    /\ NoRun

Assemble ==
    /\ pc = "assemble"
    /\ codeContext' = AssembleContext(files)
    /\ pc' = "assembled"
    /\ UNCHANGED <<opts, directory, envKey, fs, tree, apiKey, targetDir, stat,
                   outputFile, baseUrl, files, response, yaml, messages, question,
                   prompts, answers, requests, writes, exitCode, outcome, budget>>

SpecContext == InitContext /\ [][Assemble]_vars

(***************************************************************************)
(* Properties of a run (specification Spec).                               *)
(***************************************************************************)
Missing(v) == v = None \/ v = Empty

NoCredential == Missing(opts.apiKey) /\ Missing(envKey)

\* the path the run has to scan when no prompt replaces it
GivenTarget == IF Missing(directory) THEN Dot ELSE directory

NothingSent == requests = <<>>
NothingWritten == writes = <<>>

\* C1: when the user cancels one of the four parameter prompts, or declines
\* the consent confirmation, the run has ended with exit code 0 and no
\* write of the output file and no completion request has happened.
C1_CancelIsCleanExit ==
    ( \/ answers.consent \in {Cancel, Declined}
      \/ answers.dir = Cancel
      \/ answers.output = Cancel
      \/ answers.url = Cancel )
    => /\ pc = "exited"
       /\ exitCode = <<0>>
       /\ NothingWritten
       /\ NothingSent

\* a run cancelled at the last parameter prompt, after the three before it
\* were resolved interactively
C1_Witness ==
    /\ answers.consent = Confirmed
    /\ answers.dir = Dot
    /\ answers.output = OutYaml
    /\ answers.url = Cancel
    /\ exitCode = <<0>>

C1_WitnessDeclined == answers.consent = Declined /\ exitCode = <<0>>

\* C2: without a credential from --api-key or OPENAI_API_KEY the run ends
\* at once with exit code 1; no prompt, no scan, no request, no write,
\* whatever the other flags and arguments are.
C2_MissingKeyFailsFirst ==
    NoCredential
    => /\ pc \in {"start", "exited"}
       /\ pc = "exited" => exitCode = <<1>>
       /\ prompts = <<>>
       /\ files = <<>>
       /\ NothingSent
       /\ NothingWritten

\* an interactive invocation with every other argument supplied, and an
\* empty OPENAI_API_KEY
C2_Witness ==
    /\ opts.apiKey = None /\ envKey = Empty
    /\ ~opts.yes /\ directory = N_api /\ opts.output = OutYaml /\ opts.baseUrl = ApiUrl
    /\ pc = "exited" /\ exitCode = <<1>>

\* C3: with --yes and a target (the supplied path, or "." when none is
\* supplied) that does not exist, the run ends with exit code 1 at the
\* final validation: no prompt, no request, no write.  (With --yes the
\* action never suspends before the scan, so the file system it sees is
\* the one of the state.)
C3_YesMissingTargetFails ==
    (opts.yes /\ ~NoCredential /\ pc /= "start" /\ fs[GivenTarget] = "none")
    => /\ pc \in {"consent", "dir", "validate", "exited"}
       /\ pc = "exited" => exitCode = <<1>>
       /\ prompts = <<>>
       /\ NothingSent
       /\ NothingWritten

\* --yes without a directory argument in a working directory that is gone
C3_Witness ==
    /\ opts.yes /\ directory = None /\ fs[Dot] = "none"
    /\ pc = "exited" /\ exitCode = <<1>> /\ outcome = "target_missing"

C3_WitnessSupplied ==
    /\ opts.yes /\ directory = N_nope /\ fs[N_nope] = "none"
    /\ pc = "exited" /\ exitCode = <<1>> /\ outcome = "target_missing"

Letters == {"a", "j", "l", "m", "n", "o", "s", "y", "A", "L", "M", "Y"}

\* a text wrapped in a fenced code block: an opening fence line with a tag
\* of letters or with none, and a closing fence on the last line
FencedBlock(r) ==
    /\ r /= None
    /\ startsWith(r, Fence)
    /\ endsWith(r, <<NL>> \o Fence)
    /\ \E n \in 4..(Len(r) - 3) :
          /\ r[n] = NL
          /\ \A j \in 4..(n - 1) : r[j] \in Letters

HasFenceMarker(text) == startsWith(text, Fence) \/ endsWith(text, Fence)

\* C4: for every model response wrapped in a fenced code block (opening
\* fence with any language tag or none, in any letter case, and a closing
\* fence) the text written to the output file has neither the leading nor
\* the trailing fence marker.
C4_WrittenFileHasNoFence ==
    \A k \in 1..Len(writes) :
        (writes[k].ok /\ FencedBlock(response)) => ~HasFenceMarker(writes[k].content)

\* the part of C4 the code does meet: a block tagged yaml or yml
C4_YamlTaggedIsStripped ==
    \A k \in 1..Len(writes) :
        (writes[k].ok /\ response = YamlFenced) => ~HasFenceMarker(writes[k].content)

\* C5: with --yes, a credential, an existing target that yields a source file
\* and a successful completion response, the run issues no prompt, issues
\* exactly one request, writes the output file exactly once with the response
\* stripped of its yaml fence (the scenario's response gives exactly
\* "openapi: 3.0.3") and ends with exit code 0.  The write itself is taken
\* to succeed.
C5_YesRunWritesOnce ==
    opts.yes
    => /\ prompts = <<>>
       /\ answers = NoAnswers
       /\ Len(requests) <= 1
       /\ Len(writes) <= 1
       /\ ( /\ pc = "exited"
            /\ ~NoCredential
            /\ fs[GivenTarget] /= "none"
            /\ files /= <<>> )
          => /\ Len(requests) = 1
             /\ requests[1].kind = "spec"
             /\ ( requests[1].result = "ok" /\ \A k \in 1..Len(writes) : writes[k].ok )
                => /\ Len(writes) = 1
                   /\ writes[1].path = OrElse(opts.output, DefaultOutput)
                   /\ response = YamlFenced => writes[1].content = OpenApiBody
                   /\ exitCode = <<0>>

\* the scenario: --yes --output out.yaml on a directory holding users.py,
\* the yaml-fenced response, the file written once, exit code 0
C5_Witness ==
    /\ opts.yes /\ opts.output = OutYaml /\ directory = N_api /\ tree = ExampleTree
    /\ response = YamlFenced
    /\ writes = << [path |-> OutYaml, content |-> OpenApiBody, ok |-> TRUE] >>
    /\ Len(requests) = 1
    /\ pc = "exited" /\ exitCode = <<0>>

(***************************************************************************)
(* Properties of collectFiles (specification SpecCollect).                 *)
(***************************************************************************)
\* the path of entry i below the root, from the names on the way to it
RECURSIVE PathBelowRoot(_, _)
PathBelowRoot(t, i) ==
    IF t[i].parent = 0 THEN t[i].name
    ELSE PathBelowRoot(t, t[i].parent) \o Slash \o t[i].name

\* the indexes of the entries on the way from the root to entry i, i last
RECURSIVE Way(_, _)
Way(t, i) == IF t[i].parent = 0 THEN <<i>> ELSE Append(Way(t, t[i].parent), i)

HiddenName(name) == name /= Empty /\ name[1] = "."
IgnoredName(name) == name \in IGNORE

SupportedName(name) ==
    \E e \in EXTENSIONS : endsWith(name, e) /\ Len(name) > Len(e)

\* some directory above entry i is hidden or ignored
UnderSkippedDir(t, i) ==
    \E k \in 1..(Len(Way(t, i)) - 1) :
        HiddenName(t[Way(t, i)[k]].name) \/ IgnoredName(t[Way(t, i)[k]].name)

Collected == pc = "collected"

EntryOf(t, f) == { i \in 1..Len(t) : ~t[i].isDir /\ PathBelowRoot(t, i) = f.path }

\* C6: collectFiles never returns an entry whose extension is unsupported,
\* nor one below a hidden or ignored directory, nor one of 100,000 bytes or
\* more (a file of exactly 100,000 bytes is excluded).
C6_NothingFilteredIsReturned ==
    Collected =>
        \A k \in 1..Len(files) :
            /\ EntryOf(tree, files[k]) /= {}
            /\ \A i \in EntryOf(tree, files[k]) :
                  /\ SupportedName(tree[i].name)
                  /\ ~UnderSkippedDir(tree, i)
                  /\ tree[i].size < 100000
                  /\ tree[i].size /= 100000

\* a scan that returns a file while the tree also holds a file of exactly
\* 100,000 bytes and a source file below an ignored directory
C6_Witness ==
    /\ Collected
    /\ Len(files) = 1
    /\ \E i \in 1..Len(tree) : tree[i].size = 99999 /\ files[1].path = tree[i].name
    /\ \E i \in 1..Len(tree) :
          ~tree[i].isDir /\ tree[i].size = 100000 /\ tree[i].parent = 0
              /\ SupportedName(tree[i].name)
    /\ \E i \in 1..Len(tree) :
          ~tree[i].isDir /\ SupportedName(tree[i].name) /\ tree[i].size < 100000
              /\ tree[i].parent /= 0 /\ IgnoredName(tree[tree[i].parent].name)

\* the files a scan has to return
Eligible(t) ==
    { i \in 1..Len(t) :
        /\ ~t[i].isDir
        /\ SupportedName(t[i].name)
        /\ t[i].size < 100000
        /\ ~UnderSkippedDir(t, i)
        /\ ~HiddenName(t[i].name)
        /\ ~IgnoredName(t[i].name) }

\* a precedes b in a depth-first walk that lists each directory by index
RECURSIVE WalksBefore(_, _)
WalksBefore(a, b) ==
    /\ a /= <<>> /\ b /= <<>>
    /\ \/ Head(a) < Head(b)
       \/ Head(a) = Head(b) /\ WalksBefore(Tail(a), Tail(b))

PositionOf(t, i) ==
    1 + Cardinality({ j \in Eligible(t) : WalksBefore(Way(t, j), Way(t, i)) })

\* C7: collectFiles returns every file with a supported extension, a size
\* below 100,000 bytes and no hidden or ignored name on its path below the
\* root, each once, with its path relative to the root, in depth-first
\* order following the listing order; the scenario's tree yields exactly
\* users.py.
C7_ExactlyTheEligibleInWalkOrder ==
    Collected =>
        /\ Len(files) = Cardinality(Eligible(tree))
        /\ \A i \in Eligible(tree) :
              files[PositionOf(tree, i)] =
                  [path |-> PathBelowRoot(tree, i), content |-> tree[i].content]
        /\ tree = ExampleTree
              => files = << [path |-> N_users_py, content |-> <<"u">>] >>

\* a scan below "api" that returns a file of a subdirectory before a file
\* of the root listed after that subdirectory
C7_Witness ==
    /\ Collected
    /\ targetDir = N_api
    /\ Len(files) = 2
    /\ \E i, j \in Eligible(tree) :
          /\ tree[i].parent /= 0 /\ tree[j].parent = 0 /\ tree[i].parent < j /\ j < i
          /\ files[1].path = PathBelowRoot(tree, i)
          /\ files[2].path = PathBelowRoot(tree, j)

C7_WitnessScenario ==
    Collected /\ tree = ExampleTree /\ Len(files) = 1 /\ files[1].path = N_users_py

(***************************************************************************)
(* Properties of the context text (specification SpecContext).             *)
(***************************************************************************)
Assembled == pc = "assembled"

\* the lists that hold the files of l in another order
Reorderings(l) ==
    { [k \in 1..Len(l) |-> l[g[k]]] :
        g \in { h \in [1..Len(l) -> 1..Len(l)] :
                  \A a, b \in 1..Len(l) : a /= b => h[a] /= h[b] } } \ {l}

HasLineBreak(text) == \E k \in 1..Len(text) : text[k] = NL

\* C8 as stated: every reordering of the file list gives another text.
C8_EveryReorderingChangesText ==
    Assembled => \A l \in Reorderings(files) : AssembleContext(l) /= codeContext

\* C8, amended: every reordering of a list of files whose paths hold no
\* line break gives another text (the paths of a scan are pairwise
\* distinct).
C8_ReorderingChangesText ==
    (Assembled /\ \A k \in 1..Len(files) : ~HasLineBreak(files[k].path))
    => \A l \in Reorderings(files) : AssembleContext(l) /= codeContext

\* two files of equal content, so that only the headers tell the orders apart
C8_Witness ==
    /\ Assembled
    /\ Len(files) = 2
    /\ files[1].content = files[2].content
    /\ ~HasLineBreak(files[1].path) /\ ~HasLineBreak(files[2].path)
    /\ Reorderings(files) /= {}

(***************************************************************************)
(* Properties of the Q&A loop and of the resolved parameters (Spec).       *)
(***************************************************************************)
\* cancel, empty input, or the word done in any letter casing
LoopEnder(q) ==
    \/ q = Cancel
    \/ q = Empty
    \/ /\ Len(q) = 4
       /\ q[1] \in {"d", "D"} /\ q[2] \in {"o", "O"}
       /\ q[3] \in {"n", "N"} /\ q[4] \in {"e", "E"}

\* C9: when the user cancels the Q&A prompt, submits empty input or submits
\* "done" in any letter casing, the loop ends on that turn: no request is
\* issued for it, nothing is appended to the history, and the session
\* issues no request afterwards (the run is over: nothing is left to do).
C9_EnderStopsLoop ==
    /\ [][ (pc = "await_question" /\ pc' /= pc /\ LoopEnder(question'))
             => (requests' = requests /\ messages' = messages /\ pc' = "exited") ]_vars
    /\ [](pc = "exited" => ~ENABLED Next)

\* the loop ended by DONE after a turn that was answered
C9_Witness ==
    /\ question = <<"D", "O", "N", "E">>
    /\ pc = "exited"
    /\ Len(messages) = 3
    /\ Len(requests) = 2 /\ requests[2].kind = "qa" /\ requests[2].result = "ok"

ReachedScan ==
    \/ pc \in {"scan", "generate", "await_completion", "await_offer",
               "await_question", "await_answer"}
    \/ pc = "exited" /\ outcome \in {"no_files", "generation_failed", "done"}

Resolved(answer, given, default) ==
    IF answer /= None THEN answer
    ELSE IF ~Missing(given) THEN given
    ELSE default

\* C10: whenever control reaches the scan and the completion request, the
\* target path, the output path and the base URL are non-empty: the value
\* the prompt returned when one was issued, else the value of the flag,
\* else the default (".", "openapi.yaml", "http://localhost:3000").
C10_ParametersResolved ==
    ReachedScan
    => /\ ~Missing(targetDir) /\ ~Missing(outputFile) /\ ~Missing(baseUrl)
       /\ targetDir = Resolved(answers.dir, directory, Dot)
       /\ outputFile = Resolved(answers.output, opts.output, DefaultOutput)
       /\ baseUrl = Resolved(answers.url, opts.baseUrl, DefaultBaseUrl)
       /\ \A k \in 1..Len(requests) :
             requests[k].kind = "spec"
                => startsWith(requests[k].messages[2].content, SpecUserPrefix \o baseUrl)

\* --yes with no argument at all: the three defaults at the request
C10_Witness ==
    /\ opts.yes /\ directory = None /\ opts.output = None /\ opts.baseUrl = None
    /\ pc = "await_completion"
    /\ targetDir = Dot /\ outputFile = DefaultOutput /\ baseUrl = DefaultBaseUrl

\* an interactive run: a supplied path that is missing is replaced by the
\* prompt's, the output path is entered, the URL prompt is left empty
C10_WitnessPrompted ==
    /\ ~opts.yes /\ directory = N_nope
    /\ answers.dir = Dot /\ answers.output = OutYaml /\ answers.url = DefaultBaseUrl
    /\ pc = "await_completion"

(***************************************************************************)
(* Properties of the scan, of the failures and of the prompts (Spec).      *)
(***************************************************************************)
\* C11: a completion request for the specification is only issued with a
\* non-empty list of source files; when the scan returns no file the run
\* ends on that step with exit code 1, no request issued and no file
\* written.
C11_EmptyScanFails ==
    /\ [](requests /= <<>> => files /= <<>>)
    /\ [][ (pc = "scan" /\ pc' /= pc /\ files' = <<>>)
             => /\ pc' = "exited"
                /\ exitCode' = <<1>>
                /\ NothingSent' /\ NothingWritten' ]_vars
    /\ [][ pc = "exited" => pc' = "exited" ]_vars

\* an interactive run on an existing directory that holds no source file
C11_Witness ==
    /\ tree = NoSourceTree
    /\ ~opts.yes /\ targetDir = Dot /\ fs[Dot] = "dir"
    /\ baseUrl = DefaultBaseUrl
    /\ files = <<>>
    /\ pc = "exited" /\ exitCode = <<1>> /\ outcome = "no_files"

\* the prompts of the Q&A part of a run
QAStarted ==
    \/ messages /= <<>>
    \/ \E k \in 1..Len(prompts) : prompts[k] \in {"offer", "question"}

SpecRequestFailed ==
    \E k \in 1..Len(requests) :
        requests[k].kind = "spec" /\ requests[k].result = "failed"

\* C12: when the one-shot completion request fails the run has ended with
\* exit code 1, the output file is not written, the Q&A session is not
\* started, and that request is the only one of the run.
C12_FailedRequestIsFatal ==
    SpecRequestFailed
    => /\ pc = "exited"
       /\ exitCode = <<1>>
       /\ NothingWritten
       /\ ~QAStarted
       /\ Len(requests) = 1

\* an interactive run, in which a Q&A offer would follow a success
C12_Witness ==
    /\ ~opts.yes
    /\ Len(requests) = 1 /\ requests[1].kind = "spec" /\ requests[1].result = "failed"
    /\ pc = "exited" /\ exitCode = <<1>>

\* C13 as stated: the existence of the target is checked on the step that
\* starts the scan; when the target is missing there, the run ends with the
\* precondition failure (exit code 1), without a scan and without a request.
C13_TargetRecheckedBeforeScan ==
    [][ (pc = "scan" /\ pc' /= pc /\ fs[targetDir] = "none")
          => /\ pc' = "exited"
             /\ outcome' = "target_missing"
             /\ exitCode' = <<1>>
             /\ files' = <<>>
             /\ NothingSent' ]_vars

\* what the code does: the target exists when the output-path prompt is
\* reached; the check of line 285 is the last one
C13_TargetCheckedBeforeOutputPrompt ==
    [][ (pc = "validate" /\ pc' /= pc)
          => IF fs[targetDir'] = "none"
             THEN pc' = "exited" /\ outcome' = "target_missing" /\ exitCode' = <<1>>
             ELSE pc' = "stat" ]_vars

\* C14: a directory argument that is missing when --yes is not set is
\* discarded and the directory prompt is issued; the prompt resolves only
\* with a path that exists at submission (a missing one is asked again) or
\* with a cancellation, which ends the run with exit code 0; the
\* validation that follows the prompt then never fails.
C14_MissingDirectoryFallsBackToPrompt ==
    /\ [][ (pc = "dir" /\ pc' /= pc /\ ~opts.yes
              /\ ~Missing(directory) /\ fs[directory] = "none")
             => /\ pc' = "await_dir"
                /\ targetDir' = None
                /\ prompts' = Append(prompts, "directory") ]_vars
    /\ [][ (pc = "await_dir" /\ pc' /= pc)
             => \/ /\ pc' = "validate"
                   /\ targetDir' \in Paths /\ fs[targetDir'] /= "none"
                   /\ answers'.dir = targetDir'
                \/ /\ pc' = "exited" /\ exitCode' = <<0>>
                   /\ answers'.dir = Cancel ]_vars
    /\ [][ (pc = "await_dir" /\ pc' = pc) => targetDir' = targetDir ]_vars
    /\ [][ (pc = "validate" /\ answers.dir /= None) => pc' \in {"validate", "stat"} ]_vars

\* a supplied path that is missing, a submission that was rejected, then
\* one that was accepted, and the run past the validation
C14_Witness ==
    /\ ~opts.yes /\ directory = N_nope /\ fs[N_nope] = "none"
    /\ budget.rejected < MaxRejected
    /\ answers.dir = Dot /\ targetDir = Dot
    /\ pc = "await_completion"

ParameterPrompts == <<"consent", "directory", "output", "baseUrl">>

Rank(prompt) == CHOOSE r \in 1..4 : ParameterPrompts[r] = prompt

Issued(prompt) == \E k \in 1..Len(prompts) : prompts[k] = prompt

IsParameterPrompt(prompt) == prompt \in {"consent", "directory", "output", "baseUrl"}

ConsentGiven == opts.yes \/ answers.consent = Confirmed

TargetResolved == ~Missing(targetDir) /\ (Issued("directory") => answers.dir = targetDir)

OutputResolved ==
    IF Issued("output") THEN ~Missing(answers.output) /\ answers.output /= Cancel
    ELSE outputFile = OrElse(opts.output, DefaultOutput)

BaseUrlResolved ==
    IF Issued("baseUrl") THEN ~Missing(answers.url) /\ answers.url /= Cancel
    ELSE baseUrl = OrElse(opts.baseUrl, DefaultBaseUrl)

PastScan ==
    \/ pc \in {"generate", "await_completion", "await_offer", "await_question",
                "await_answer"}
    \/ files /= <<>>
    \/ requests /= <<>>
    \/ outcome = "no_files"

\* C15: the parameter prompts are issued in the order consent, directory,
\* output path, base URL, each at most once; a prompt is issued only when
\* every earlier step is supplied or resolved; a parameter supplied by flag
\* (for the directory: supplied and existing when it is looked at) is not
\* prompted for, and --yes prompts for nothing; the scan and the request
\* happen only after consent and with all parameters resolved.
C15_PromptsInOrder ==
    /\ [](\A j, k \in 1..Len(prompts) :
            (j < k /\ IsParameterPrompt(prompts[j]) /\ IsParameterPrompt(prompts[k]))
                => Rank(prompts[j]) < Rank(prompts[k]))
    /\ [](\A k \in 1..Len(prompts) :
            (k > 1 /\ IsParameterPrompt(prompts[k])) => IsParameterPrompt(prompts[k - 1]))
    /\ [](prompts /= <<>> => ~opts.yes /\ prompts[1] = "consent")
    /\ [](Issued("directory") => ConsentGiven)
    /\ [](Issued("output") => ConsentGiven /\ TargetResolved /\ Missing(opts.output))
    /\ [](Issued("baseUrl")
            => ConsentGiven /\ TargetResolved /\ OutputResolved /\ Missing(opts.baseUrl))
    /\ [][ (pc = "dir" /\ pc' = "await_dir")
             => Missing(directory) \/ fs[directory] = "none" ]_vars
    /\ [][ (pc = "scan" /\ pc' /= pc)
             => ConsentGiven /\ TargetResolved /\ OutputResolved /\ BaseUrlResolved ]_vars
    /\ [](PastScan
            => ConsentGiven /\ TargetResolved /\ OutputResolved /\ BaseUrlResolved)

\* an interactive run without any argument: the four prompts, then the
\* request
C15_Witness ==
    /\ ~opts.yes /\ directory = None /\ opts.output = None /\ opts.baseUrl = None
    /\ prompts = ParameterPrompts
    /\ pc = "await_completion"

\* an interactive run with every parameter supplied: the consent prompt only
C15_WitnessSupplied ==
    /\ ~opts.yes /\ directory = N_api /\ opts.output = OutYaml /\ opts.baseUrl = ApiUrl
    /\ prompts = <<"consent">>
    /\ pc = "await_completion"

C16_WitnessHuge ==
    /\ pc = "generate"
    /\ FileTable[directory].size = 100000
    /\ Len(files) = 1 /\ files[1].path = directory

(***************************************************************************)
(* Properties of the Q&A session and of the failures (Spec).               *)
(***************************************************************************)
IsPrefix(a, b) == Len(a) <= Len(b) /\ SubSeq(b, 1, Len(a)) = a

Last(s) == s[Len(s)]

QARequests == { k \in 1..Len(requests) : requests[k].kind = "qa" }

\* C17: when the request of a Q&A turn fails the process does not exit and
\* the loop prompts for the next message; the user message of the failed
\* turn stays where it is in the history, no assistant entry is added for
\* it, and every later request carries it.
C17_FailedTurnStaysInHistory ==
    /\ [][ (pc = "await_answer" /\ pc' /= pc /\ Last(requests').result = "failed")
             => /\ pc' = "await_question"
                /\ exitCode' = <<>>
                /\ prompts' = Append(prompts, "question")
                /\ messages' = messages
                /\ Last(messages').role = "user"
                /\ Last(messages').content = question ]_vars
    /\ [](\A k \in QARequests :
            requests[k].result = "failed"
            => /\ IsPrefix(requests[k].messages, messages)
               /\ Len(messages) > Len(requests[k].messages)
                     => messages[Len(requests[k].messages) + 1].role = "user"
               /\ \A j \in QARequests :
                     j > k => IsPrefix(requests[k].messages, requests[j].messages))

\* a failed turn followed by a turn whose request carries both messages
C17_Witness ==
    /\ Len(requests) = 3
    /\ requests[2].kind = "qa" /\ requests[2].result = "failed"
    /\ requests[3].kind = "qa"
    /\ Len(requests[3].messages) = 3
    /\ requests[3].messages[2] = Last(requests[2].messages)
    /\ requests[3].messages[3].role = "user"

Turns(result) == Cardinality({ k \in QARequests : requests[k].result = result })

InSession == messages /= <<>>

Outstanding == { k \in 1..Len(requests) : requests[k].result = "pending" }

\* C19: the request of a Q&A turn carries the whole history, whose last
\* entry is the user message of that turn; it is issued only when every
\* earlier request has returned or failed, so that at most one request is
\* outstanding at any instant.
C19_RequestCarriesFullHistory ==
    /\ [][ (Len(requests') > Len(requests) /\ Last(requests').kind = "qa")
             => /\ Len(requests') = Len(requests) + 1
                /\ Outstanding = {}
                /\ Last(requests').messages = messages'
                /\ messages' = Append(messages, Message("user", question'))
                /\ Len(messages) = 1 + 2 * Turns("ok") + Turns("failed") ]_vars
    /\ [](Cardinality(Outstanding) <= 1)
    /\ [](Outstanding \subseteq {Len(requests)})

\* the request of a second turn, outstanding, with the first turn in it
C19_Witness ==
    /\ pc = "await_answer"
    /\ Len(requests) = 3
    /\ Outstanding = {3}
    /\ requests[2].result = "ok"
    /\ Len(requests[3].messages) = 4
    /\ requests[3].messages[2].role = "user"
    /\ requests[3].messages[3] = Message("assistant", Answer)
    /\ requests[3].messages[4] = Message("user", question)

ReportedFailures == {"missing_key", "target_missing", "no_files", "generation_failed"}

\* C20 as stated: every failure of a run is handled where it is detected;
\* a run that ends with exit code 1 has reported a failure of one of the
\* classes of the command, and a failed Q&A request leaves the run going.
C20_EveryFailureIsHandled ==
    /\ (pc = "exited" /\ exitCode = <<1>>) => outcome \in ReportedFailures
    /\ (pc = "exited" /\ exitCode = <<0>>) => outcome \in {"cancelled", "done"}

\* the failures the code does handle: each ends the run with exit code 1
\* from the step that detects it
C20_HandledFailures ==
    /\ outcome = "missing_key" => exitCode = <<1>> /\ prompts = <<>> /\ NothingSent
    /\ outcome = "target_missing" => exitCode = <<1>> /\ files = <<>> /\ NothingSent
    /\ outcome = "no_files" => exitCode = <<1>> /\ files = <<>> /\ NothingSent
    /\ outcome = "generation_failed"
          => /\ exitCode = <<1>>
             /\ Len(requests) = 1
             /\ requests[1].result = "failed" \/ (Len(writes) = 1 /\ ~writes[1].ok)

Written == writes /= <<>> /\ writes[1].ok

\* C21: the output file is written at most once per run, and once it is
\* written nothing changes it or the outcome: the answer to the Q&A offer,
\* completed and failed Q&A turns and the end of the loop leave the file
\* as it was written, and the run ends with exit code 0.
C21_WrittenFileIsFinal ==
    /\ [](Len(writes) <= 1)
    /\ [][ writes /= <<>> => writes' = writes ]_vars
    /\ [](Written
            => /\ writes[1].path = outputFile
               /\ writes[1].content = yaml
               /\ pc \in {"await_offer", "await_question", "await_answer", "exited"}
               /\ pc = "exited" => exitCode = <<0>> /\ outcome = "done"
               /\ pc /= "exited" => exitCode = <<>>)
    /\ [][ (Written /\ pc \in {"await_offer", "await_question"} /\ pc' = "exited")
             => exitCode' = <<0>> ]_vars

\* the file written, the offer accepted, a completed and a failed turn, and
\* the loop ended
C21_Witness ==
    /\ Written
    /\ answers.offer = Confirmed
    /\ Turns("ok") = 1 /\ Turns("failed") = 1
    /\ EndsLoop(question)
    /\ pc = "exited" /\ exitCode = <<0>>
    /\ writes = << [path |-> outputFile, content |-> yaml, ok |-> TRUE] >>

\* the offer declined, and the offer cancelled
C21_WitnessDeclined ==
    Written /\ answers.offer \in {Declined, Cancel} /\ pc = "exited" /\ exitCode = <<0>>

====
